---- MODULE Spec2Model ----
(***************************************************************************)
(* A model of the STOMP client of viral32111/stomp:                        *)
(*   src/src/frame.rs   frame::create (encoder) and frame::parse (decoder) *)
(*   src/src/header.rs  the header-name table                              *)
(*   src/src/lib.rs     the receive thread, its channel, wait and close    *)
(*                                                                         *)
(* Bytes are numbers 0..255 and buffers are sequences of bytes.  Positions *)
(* are the 0-based positions of the Rust code: At(b, i) is b[i] and        *)
(* Slice(b, i, j) is b[i..j].                                              *)
(***************************************************************************)
EXTENDS Integers, Sequences, FiniteSets, TLC

\* ------------------------------------------------------------------ bytes

\* b'\n', the line terminator of the wire format.
LF == 10

\* 0x00, the frame terminator.
NUL == 0

\* '\r', stripped before a line feed and by trim_end.
CR == 13

\* ':', the header name/value delimiter.
COLON == 58

\* '\\', the escape character of header values.
BACKSLASH == 92

\* The value of Option::None for a position or a length.
None == -1

\* Headers::ContentLength.as_str(): "content-length".
ContentLengthName == <<99, 111, 110, 116, 101, 110, 116, 45, 108, 101, 110, 103, 116, 104>>

\* Headers::ContentType.as_str(): "content_hyphen_type".
ContentTypeName ==
  <<99, 111, 110, 116, 101, 110, 116, 95, 104, 121, 112, 104, 101, 110, 95, 116, 121, 112, 101>>

\* buffer[i], 0-based; the caller checks InBounds as Rust's indexing does.
At(buffer, i) == buffer[i + 1]

\* Whether buffer[i] is inside the buffer (Rust panics otherwise).
InBounds(buffer, i) == i >= 0 /\ i < Len(buffer)

\* buffer[i..j], 0-based, j exclusive.
Slice(buffer, i, j) == SubSeq(buffer, i + 1, j)

\* Whether the slice buffer[i..j] can be taken (Rust panics otherwise).
SliceOk(buffer, i, j) == 0 <= i /\ i <= j /\ j <= Len(buffer)

\* ------------------------------------------------------------- str helpers

\* std::str::from_utf8 succeeds: the bytes are well-formed UTF-8.
RECURSIVE Utf8Valid(_)
Utf8Valid(s) ==
  IF s = <<>> THEN TRUE
  ELSE LET b == s[1]
           n == Len(s)
           Cont(i) == i <= n /\ s[i] >= 128 /\ s[i] <= 191
       IN IF b < 128 THEN Utf8Valid(SubSeq(s, 2, n))
          ELSE IF b >= 194 /\ b <= 223
            THEN Cont(2) /\ Utf8Valid(SubSeq(s, 3, n))
          ELSE IF b >= 224 /\ b <= 239
            THEN /\ Cont(2) /\ Cont(3)
                 /\ (b = 224 => s[2] >= 160)
                 /\ (b = 237 => s[2] <= 159)
                 /\ Utf8Valid(SubSeq(s, 4, n))
          ELSE IF b >= 240 /\ b <= 244
            THEN /\ Cont(2) /\ Cont(3) /\ Cont(4)
                 /\ (b = 240 => s[2] >= 144)
                 /\ (b = 244 => s[2] <= 143)
                 /\ Utf8Valid(SubSeq(s, 5, n))
          ELSE FALSE

\* char::is_whitespace on an ASCII byte: TAB, LF, VT, FF, CR and space.
IsWhitespace(b) == (b >= 9 /\ b <= 13) \/ b = 32

\* str::trim_end.
RECURSIVE TrimEnd(_)
TrimEnd(s) ==
  IF s # <<>> /\ IsWhitespace(s[Len(s)]) THEN TrimEnd(SubSeq(s, 1, Len(s) - 1)) ELSE s

\* The position of the first byte b of s at or after position i, or None.
RECURSIVE PositionFrom(_, _, _)
PositionFrom(s, b, i) ==
  IF i >= Len(s) THEN None
  ELSE IF At(s, i) = b THEN i
  ELSE PositionFrom(s, b, i + 1)

\* buffer.iter().position(|&byte| byte == b).
Position(s, b) == PositionFrom(s, b, 0)

\* buffer.windows(2).position(|bytes| bytes == [b'\n', b'\n']), from position i.
RECURSIVE SeparatorFrom(_, _)
SeparatorFrom(buffer, i) ==
  IF i + 1 >= Len(buffer) THEN None
  ELSE IF At(buffer, i) = LF /\ At(buffer, i + 1) = LF THEN i
  ELSE SeparatorFrom(buffer, i + 1)

\* The position of the first LF LF of the buffer, or None.
SeparatorPosition(buffer) == SeparatorFrom(buffer, 0)

\* One line of str::lines without its terminator: a CR before the LF is dropped.
StripCR(line) ==
  IF line # <<>> /\ line[Len(line)] = CR THEN SubSeq(line, 1, Len(line) - 1) ELSE line

\* str::lines: the lines of s, each ended by LF (or by the end of s); no
\* line is produced after a final LF.
RECURSIVE Lines(_)
Lines(s) ==
  IF s = <<>> THEN <<>>
  ELSE LET p == Position(s, LF)
       IN IF p = None THEN <<s>>
          ELSE <<StripCR(Slice(s, 0, p))>> \o Lines(Slice(s, p + 1, Len(s)))

\* char::to_lowercase on an ASCII byte.
LowerByte(b) == IF b >= 65 /\ b <= 90 THEN b + 32 ELSE b

\* str::to_lowercase.
ToLowercase(s) == [i \in 1..Len(s) |-> LowerByte(s[i])]

\* str::replace of the two-byte pattern <<a, b>> by the byte r: every
\* non-overlapping match, left to right.
RECURSIVE Replace(_, _, _, _)
Replace(s, a, b, r) ==
  IF s = <<>> THEN <<>>
  ELSE IF Len(s) >= 2 /\ s[1] = a /\ s[2] = b
    THEN <<r>> \o Replace(SubSeq(s, 3, Len(s)), a, b, r)
  ELSE <<s[1]>> \o Replace(Tail(s), a, b, r)

\* The four replacements applied to a header value, in the code's order:
\* \r -> CR, \n -> LF, \c -> ':', \\ -> \.
Unescape(value) ==
  Replace(Replace(Replace(Replace(value, BACKSLASH, 114, CR), BACKSLASH, 110, LF),
                  BACKSLASH, 99, COLON),
          BACKSLASH, BACKSLASH, BACKSLASH)

\* ------------------------------------------------------------------ frames

\* Option<String>::None as a frame's body.
NoBody == [some |-> FALSE, text |-> <<>>]

\* Option<String>::Some(text) as a frame's body.
SomeBody(text) == [some |-> TRUE, text |-> text]

\* struct Frame { command, headers, body }.
Frame(command, headers, body) == [command |-> command, headers |-> headers, body |-> body]

\* The frame field of an outcome that carries no frame.
NoFrame == Frame(<<>>, <<>>, NoBody)

\* Ok(None): wait for more data.
NeedMoreData == [kind |-> "NeedMoreData", frame |-> NoFrame, end |-> None, why |-> ""]

\* Ok(Some((frame, end_position))).
Parsed(frame, end_position) ==
  [kind |-> "Parsed", frame |-> frame, end |-> end_position, why |-> ""]

\* Err(reason): the frame is malformed.
MalformedFrame(why) == [kind |-> "MalformedFrame", frame |-> NoFrame, end |-> None, why |-> why]

\* The call does not return: an index or a slice outside the buffer panics.
Panic(why) == [kind |-> "Panic", frame |-> NoFrame, end |-> None, why |-> why]

\* A split at the last colon of the line.
SplitAtLastColon(line) ==
  IF \A i \in 1..Len(line) : line[i] # COLON THEN None
  ELSE (CHOOSE i \in 1..Len(line) :
          line[i] = COLON /\ \A j \in i + 1..Len(line) : line[j] # COLON) - 1

\* line.split_once(":"): the position of the first colon, or None.
SplitOnce(line) == Position(line, COLON)

\* The closure of filter_map: <<>> for a line that is skipped, else a
\* one-element sequence holding the pair <<name, value>>.
HeaderOfLine(line) ==
  IF line = <<>> THEN <<>>
  ELSE LET p == SplitOnce(line)
       IN IF p = None THEN <<>>
          ELSE LET name == Slice(line, 0, p)
                   value == Slice(line, p + 1, Len(line))
               IN IF name = <<>> THEN <<>>
                  ELSE << <<ToLowercase(name), Unescape(value)>> >>

\* filter_map(...).collect() over a sequence of lines.
RECURSIVE CollectHeaders(_)
CollectHeaders(lines) ==
  IF lines = <<>> THEN <<>>
  ELSE HeaderOfLine(Head(lines)) \o CollectHeaders(Tail(lines))

\* The headers of the header region buffer[headers_start..headers_end].
ParseHeaders(region) == CollectHeaders(Lines(region))

\* The width of usize in bits (64 on the targets of the crate), scaled down
\* so that the largest usize is a content-length the inputs can spell.
UsizeBits == 8

\* usize::MAX + 1.
UsizeModulus == 2 ^ UsizeBits

\* The build: integer overflow checks are on (the dev profile) or off (the
\* release profile).
VARIABLE overflow_checks

\* The value of a string of ASCII digits.
RECURSIVE DigitsValue(_)
DigitsValue(s) ==
  IF s = <<>> THEN 0 ELSE DigitsValue(SubSeq(s, 1, Len(s) - 1)) * 10 + (s[Len(s)] - 48)

\* value.parse::<usize>().ok(): an optional '+', then one or more digits;
\* None otherwise; a number that does not fit in usize is an error too.
ParseUsize(value) ==
  LET digits == IF value # <<>> /\ value[1] = 43 THEN Tail(value) ELSE value
  IN IF /\ digits # <<>>
        /\ \A i \in 1..Len(digits) : digits[i] >= 48 /\ digits[i] <= 57
        /\ DigitsValue(digits) < UsizeModulus
       THEN DigitsValue(digits)
       ELSE None

\* A search that takes a content-length value that does not parse for 0.
RECURSIVE ContentLengthOrZero(_)
ContentLengthOrZero(headers) ==
  IF headers = <<>> THEN None
  ELSE LET name == Head(headers)[1]
           value == Head(headers)[2]
       IN IF name = ContentLengthName
            THEN (IF ParseUsize(value) # None THEN ParseUsize(value) ELSE 0)
            ELSE ContentLengthOrZero(Tail(headers))

\* headers.iter().find_map(...): the parsed value of the first
\* content-length header whose value parses, or None.
RECURSIVE ContentLength(_)
ContentLength(headers) ==
  IF headers = <<>> THEN None
  ELSE LET name == Head(headers)[1]
           value == Head(headers)[2]
       IN IF name = ContentLengthName /\ ParseUsize(value) # None
            THEN ParseUsize(value)
            ELSE ContentLength(Tail(headers))

\* GzDecoder::new(slice).read_to_string(&mut body).  The gzip container is
\* abridged to one magic byte (0x1f), the stored payload and one trailer
\* byte holding the payload's length (ISIZE); anything else, and a payload
\* that is not UTF-8, is an error.
GzDecode(bytes) ==
  LET n == Len(bytes)
      payload == SubSeq(bytes, 2, n - 1)
  IN IF n >= 2 /\ bytes[1] = 31 /\ bytes[n] = (n - 2) % 256 /\ Utf8Valid(payload)
       THEN [ok |-> TRUE, text |-> payload]
       ELSE [ok |-> FALSE, text |-> <<>>]

\* The body's end taken as the position of its last byte.
BodyEndInclusive(body_start_position, body_length) == body_start_position + body_length - 1

\* body_start_position + body_length, in usize: the sum wraps around when
\* the build has no overflow checks.
BodyEndPosition(body_start_position, body_length) ==
  (body_start_position + body_length) % UsizeModulus

\* ParseUnsized returning the position of the NUL, not of the LF, as the end
\* of the frame.
ParseUnsizedEndsAtNul(buffer, command, headers, headers_end_position) ==
  IF Len(buffer) < headers_end_position + 2 THEN NeedMoreData
  ELSE IF ~InBounds(buffer, headers_end_position + 1) THEN Panic("index")
  ELSE IF At(buffer, headers_end_position + 1) # NUL
    THEN MalformedFrame("Frame not null terminated")
  ELSE IF ~InBounds(buffer, headers_end_position + 2) THEN Panic("index")
  ELSE IF At(buffer, headers_end_position + 2) # LF
    THEN MalformedFrame("Frame not terminated with a new line")
  ELSE Parsed(Frame(command, headers, NoBody), headers_end_position + 1)

\* ParseUnsized waiting for more data when the byte after the separator is
\* not NUL.
ParseUnsizedWaitsForNul(buffer, command, headers, headers_end_position) ==
  IF Len(buffer) < headers_end_position + 2 THEN NeedMoreData
  ELSE IF ~InBounds(buffer, headers_end_position + 1) THEN Panic("index")
  ELSE IF At(buffer, headers_end_position + 1) # NUL THEN NeedMoreData
  ELSE IF ~InBounds(buffer, headers_end_position + 2) THEN Panic("index")
  ELSE IF At(buffer, headers_end_position + 2) # LF
    THEN MalformedFrame("Frame not terminated with a new line")
  ELSE Parsed(Frame(command, headers, NoBody), headers_end_position + 2)

\* The no-content-length branch of parse: the frame ends with NUL LF right
\* after the separator.
ParseUnsized(buffer, command, headers, headers_end_position) ==
  IF Len(buffer) < headers_end_position + 2 THEN NeedMoreData
  ELSE IF ~InBounds(buffer, headers_end_position + 1) THEN Panic("index")
  ELSE IF At(buffer, headers_end_position + 1) # NUL
    THEN MalformedFrame("Frame not null terminated")
  ELSE IF ~InBounds(buffer, headers_end_position + 2) THEN Panic("index")
  ELSE IF At(buffer, headers_end_position + 2) # LF
    THEN MalformedFrame("Frame not terminated with a new line")
  ELSE Parsed(Frame(command, headers, NoBody), headers_end_position + 2)

\* The content-length branch of parse: body_length compressed bytes, then
\* NUL LF.
ParseSized(buffer, command, headers, headers_end_position, body_length) ==
  LET body_start_position == headers_end_position + 1
      body_end_position == BodyEndPosition(body_start_position, body_length)
  IN IF overflow_checks /\ body_start_position + body_length >= UsizeModulus
       THEN Panic("attempt to add with overflow")
     ELSE IF body_end_position > Len(buffer) THEN NeedMoreData
     ELSE IF ~SliceOk(buffer, body_start_position, body_end_position) THEN Panic("slice")
     ELSE LET body == GzDecode(Slice(buffer, body_start_position, body_end_position))
          IN IF ~body.ok THEN MalformedFrame("gzip")
             ELSE IF Len(buffer) < body_end_position + 2 THEN NeedMoreData
             ELSE IF ~InBounds(buffer, body_end_position) THEN Panic("index")
             ELSE IF At(buffer, body_end_position) # NUL
               THEN MalformedFrame("Frame not null terminated")
             ELSE IF ~InBounds(buffer, body_end_position + 1) THEN Panic("index")
             ELSE IF At(buffer, body_end_position + 1) # LF
               THEN MalformedFrame("Frame not terminated with a new line")
             ELSE Parsed(Frame(command, headers, SomeBody(body.text)),
                         body_end_position + 1)

\* frame::parse: the first frame of the buffer.
parse(buffer) ==
  IF Len(buffer) < 2 THEN NeedMoreData
  ELSE LET separator_position == SeparatorPosition(buffer)
       IN IF separator_position = None THEN NeedMoreData
          ELSE LET command_end_position == Position(buffer, LF)
                   headers_start_position == command_end_position + 1
                   headers_end_position == separator_position + 1
               IN IF ~Utf8Valid(Slice(buffer, 0, command_end_position))
                    THEN MalformedFrame("utf8")
                  ELSE IF headers_end_position > Len(buffer) THEN NeedMoreData
                  ELSE IF ~SliceOk(buffer, headers_start_position, headers_end_position)
                    THEN Panic("slice")
                  ELSE IF ~Utf8Valid(Slice(buffer, headers_start_position,
                                           headers_end_position))
                    THEN MalformedFrame("utf8")
                  ELSE LET command == TrimEnd(Slice(buffer, 0, command_end_position))
                           headers == ParseHeaders(Slice(buffer, headers_start_position,
                                                         headers_end_position))
                           content_length == ContentLength(headers)
                       IN IF content_length = None
                            THEN ParseUnsized(buffer, command, headers,
                                              headers_end_position)
                            ELSE ParseSized(buffer, command, headers,
                                            headers_end_position, content_length)

\* The header lines of create: "name:value" joined by LF.
RECURSIVE JoinHeaders(_)
JoinHeaders(headers) ==
  IF headers = <<>> THEN <<>>
  ELSE IF Len(headers) = 1 THEN headers[1][1] \o <<COLON>> \o headers[1][2]
  ELSE headers[1][1] \o <<COLON>> \o headers[1][2] \o <<LF>> \o JoinHeaders(Tail(headers))

\* frame::create: has_headers is Option::is_some of the headers argument and
\* body is the body text ("" for None).
create(command, has_headers, headers, body) ==
  IF ~has_headers THEN command \o <<LF, LF>> \o body \o <<NUL>>
  ELSE command \o <<LF>> \o JoinHeaders(headers) \o <<LF, LF>> \o body \o <<NUL>>

\* A drain of ..end_position, which leaves the frame's last byte behind.
DrainExclusive(buffer, end_position) == Slice(buffer, end_position, Len(buffer))

\* pending_data.drain(..end_position + 1): what is left of the buffer.
Drain(buffer, end_position) == Slice(buffer, end_position + 1, Len(buffer))

\* ------------------------------------------------------------------ inputs

\* The longest buffer of arbitrary bytes given to parse.
MaxBufferLen == 5

\* The most frames in one stream of the peer.
MaxFrames == 2

\* The bytes of the arbitrary buffers: NUL, LF, ':', 'A' and 0xFF (which no
\* UTF-8 text contains).
ByteAlphabet == {NUL, LF, COLON, 65, 255}

\* Every sequence over S of length n.
SeqsOfLen(S, n) == [1..n -> S]

\* Every buffer over the alphabet up to the longest.
ArbitraryBuffers == UNION {SeqsOfLen(ByteAlphabet, n) : n \in 0..MaxBufferLen}

\* A frame as its sender writes it: the command, the header lines (name and
\* value as on the wire) and the compressed body (<<>> for a frame without
\* one, which then has no content-length header).
WireFrame(command, headers, body) == [command |-> command, headers |-> headers, body |-> body]

\* The header pair content-length: value.
ContentLengthHeader(value) == <<ContentLengthName, value>>

\* The frames the peer sends: "A", "B" with k:v, "M" with a body of three
\* bytes (payload "h"), "N" with k:v and a body of two bytes (empty payload).
WireFrames ==
  { WireFrame(<<65>>, <<>>, <<>>),
    WireFrame(<<66>>, << <<(<<107>>), (<<118>>)>> >>, <<>>),
    WireFrame(<<77>>, << ContentLengthHeader(<<51>>) >>, <<31, 104, 1>>),
    WireFrame(<<78>>, << <<(<<107>>), (<<118>>)>>, ContentLengthHeader(<<50>>) >>, <<31, 0>>) }

\* The header lines of a wire frame, each ended by LF.
RECURSIVE WireHeaders(_)
WireHeaders(headers) ==
  IF headers = <<>> THEN <<>>
  ELSE headers[1][1] \o <<COLON>> \o headers[1][2] \o <<LF>> \o WireHeaders(Tail(headers))

\* The wire format: COMMAND LF (name:value LF)* LF BODY NUL LF.
Wire(f) == f.command \o <<LF>> \o WireHeaders(f.headers) \o <<LF>> \o f.body \o <<NUL, LF>>

\* The bytes of a sequence of wire frames.
RECURSIVE WireAll(_)
WireAll(fs) == IF fs = <<>> THEN <<>> ELSE Wire(Head(fs)) \o WireAll(Tail(fs))

\* The frame a wire frame stands for: its command, its headers and its
\* decompressed body.
Decoded(f) ==
  Frame(f.command, f.headers,
        IF f.body = <<>> THEN NoBody ELSE SomeBody(SubSeq(f.body, 2, Len(f.body) - 1)))

\* The frames a sequence of wire frames stands for.
DecodedAll(fs) == [i \in 1..Len(fs) |-> Decoded(fs[i])]

\* The frames of the peer's streams: "A", without a body, and "M", with one.
StreamFrames ==
  { WireFrame(<<65>>, <<>>, <<>>),
    WireFrame(<<77>>, << ContentLengthHeader(<<51>>) >>, <<31, 104, 1>>) }

\* Every stream of one to MaxFrames wire frames.
WireStreams == UNION {SeqsOfLen(WireFrames, n) : n \in 1..MaxFrames}

\* The streams of wire frames the peer sends.
PeerStreams == UNION {SeqsOfLen(StreamFrames, n) : n \in 1..MaxFrames}

\* No wire frames: the input is not the bytes of valid frames.
NoFrames == <<>>

\* The arguments of a create call.
CreateArgs(command, has_headers, headers, body) ==
  [called |-> TRUE, command |-> command, has_headers |-> has_headers,
   headers |-> headers, body |-> body]

\* No create call.
NoArgs == [called |-> FALSE, command |-> <<>>, has_headers |-> FALSE,
           headers |-> <<>>, body |-> <<>>]

\* The create calls: SEND and "S" with one or two headers (or None), with
\* the body "hi" or none.
CreateCalls ==
  { CreateArgs(c, hh, IF hh THEN h ELSE <<>>, b) :
      c \in {<<83, 69, 78, 68>>, <<83>>},
      hh \in BOOLEAN,
      h \in { << <<(<<100>>), (<<47, 97>>)>> >>,
              << <<(<<105, 100>>), (<<48>>)>>, <<(<<100>>), (<<47, 97>>)>> >> },
      b \in {<<>>, <<104, 105>>} }

\* ------------------------------------------------------------------- state

VARIABLES
  stream,        \* the bytes the peer sends on the TCP stream; in SpecDecode, the buffer under test
  gen,           \* the wire frames the stream was written from, or NoFrames
  args,          \* the arguments of the create call under test, or NoArgs
  delivered,     \* how many bytes of the stream the reads have returned
  pending_data,  \* receive_bytes: the unprocessed data
  result,        \* the outcome of the last call of frame::parse
  thread,        \* where the receive thread is
  reason,        \* the error receive_bytes returned to the closure
  channel,       \* the messages sent and not yet received
  received,      \* the messages the caller has taken from frame_receiver
  end_of_stream, \* receive_bytes: a read has returned received_byte_count == 0
  senders,       \* the Sender handles of the channel that are not dropped yet
  disconnected,  \* frame_receiver.recv() has reported that the channel is disconnected
  tcp_stream,    \* the socket: "open" or "shutdown"
  receive_thread, \* Connection.receive_thread: "Some" or "None"
  caller,        \* where the caller is: "idle", or in the join of "wait" or of "close"
  returned       \* what the caller's last call of wait or close returned

\* The state of the caller's side of the Connection.
callerVars == <<disconnected, tcp_stream, receive_thread, caller, returned>>

vars == <<stream, gen, args, delivered, pending_data, result, thread, reason, channel, received,
          end_of_stream, senders, overflow_checks, callerVars>>

\* The outcome before frame::parse was called.
NotCalled == [kind |-> "NotCalled", frame |-> NoFrame, end |-> None, why |-> ""]

\* Ok(frame) on the channel.
OkMessage(frame) == [ok |-> TRUE, frame |-> frame, reason |-> ""]

\* Err(reason) on the channel.
ErrMessage(why) == [ok |-> FALSE, frame |-> NoFrame, reason |-> why]

\* Every message sent so far, in the order sent.
sent == received \o channel

\* let mut receive_buffer = [0; 4096].
ReceiveBufferSize == 4096

\* An input: the bytes and the wire frames they were written from.
Input(fs, bytes) == [gen |-> fs, bytes |-> bytes]

\* s with the byte at position i (0-based) replaced by b.
Replaced(s, i, b) == [k \in 1..Len(s) |-> IF k = i + 1 THEN b ELSE s[k]]

\* Every prefix of the bytes of every stream of wire frames.
PrefixInputs ==
  UNION { { Input(fs, SubSeq(WireAll(fs), 1, cut)) : cut \in 0..Len(WireAll(fs)) }
          : fs \in WireStreams }

\* The bytes of one wire frame with one byte replaced by 'A', NUL or LF.
DamagedBuffers ==
  UNION { { Replaced(Wire(f), i, b) : i \in 0..Len(Wire(f)) - 1, b \in {65, NUL, LF} }
          : f \in WireFrames }

\* Frames whose content-length is "x", "", "-1", one more than the largest
\* usize, "x" and then "2", "2" and then "x", and "+2"; the last three have
\* a body of two bytes.
OddLengthBuffers ==
  { Wire(WireFrame(<<88>>, << ContentLengthHeader(<<120>>) >>, <<>>)),
    Wire(WireFrame(<<88>>, << ContentLengthHeader(<<>>) >>, <<>>)),
    Wire(WireFrame(<<88>>, << ContentLengthHeader(<<45, 49>>) >>, <<>>)),
    Wire(WireFrame(<<88>>, << ContentLengthHeader(<<50, 53, 54>>) >>, <<>>)),
    Wire(WireFrame(<<88>>, << ContentLengthHeader(<<120>>), ContentLengthHeader(<<50>>) >>,
                   <<31, 0>>)),
    Wire(WireFrame(<<88>>, << ContentLengthHeader(<<50>>), ContentLengthHeader(<<120>>) >>,
                   <<31, 0>>)),
    Wire(WireFrame(<<88>>, << ContentLengthHeader(<<43, 50>>) >>, <<31, 0>>)) }

\* The longest header value that is escaped and decoded.
MaxValueLen == 2

\* The header values that are escaped: every string of up to MaxValueLen
\* of backslash, ':', CR, LF and 'n', and "a:b" LF "c".
EscapeValues ==
  UNION {SeqsOfLen({BACKSLASH, COLON, CR, LF, 110}, n) : n \in 0..MaxValueLen}
    \cup { <<97, COLON, 98, LF, 99>> }

\* The escaping of STOMP header values: backslash, CR, LF and ':' become
\* backslash followed by backslash, 'r', 'n' and 'c'.
RECURSIVE Escape(_)
Escape(v) ==
  IF v = <<>> THEN <<>>
  ELSE (CASE v[1] = BACKSLASH -> <<BACKSLASH, BACKSLASH>>
          [] v[1] = CR -> <<BACKSLASH, 114>>
          [] v[1] = LF -> <<BACKSLASH, 110>>
          [] v[1] = COLON -> <<BACKSLASH, 99>>
          [] OTHER -> <<v[1]>>) \o Escape(Tail(v))

\* The frame "H" with the one header k whose value is v, escaped.
EscapedFrame(v) == Wire(WireFrame(<<72>>, << <<(<<107>>), Escape(v)>> >>, <<>>))

\* The frames with an escaped header value.
EscapedBuffers == { EscapedFrame(v) : v \in EscapeValues }

\* The most header lines of the frames made of the lines below.
MaxHeaderLines == 2

\* Header lines: "K:v:w", "k:v", "x" (no colon), ":v" (no name) and "k:"
\* (no value).
HeaderLines ==
  { <<75, COLON, 118, COLON, 119>>, <<107, COLON, 118>>, <<120>>, <<COLON, 118>>,
    <<107, COLON>> }

\* The lines, each ended by LF.
RECURSIVE JoinLines(_)
JoinLines(lines) ==
  IF lines = <<>> THEN <<>> ELSE Head(lines) \o <<LF>> \o JoinLines(Tail(lines))

\* The frames "C" with up to MaxHeaderLines of these lines, in every order.
HeaderBuffers ==
  { <<67, LF>> \o JoinLines(lines) \o <<LF, NUL, LF>> :
      lines \in UNION {SeqsOfLen(HeaderLines, n) : n \in 0..MaxHeaderLines} }

\* The decimal digits of n.
RECURSIVE Digits(_)
Digits(n) == IF n < 10 THEN <<48 + n>> ELSE Digits(n \div 10) \o <<48 + (n % 10)>>

\* The start of a frame "L" that announces a body of n bytes, with the
\* first k bytes of a body.
LargeLengthBuffer(n, k) ==
  <<76, LF>> \o ContentLengthName \o <<COLON>> \o Digits(n) \o <<LF, LF>>
    \o SubSeq(<<31, 104>>, 1, k)

\* Such starts for the largest usize, the one below it and half of it,
\* with no, one and two body bytes.
LargeLengthBuffers ==
  { LargeLengthBuffer(n, k) :
      n \in {UsizeModulus - 1, UsizeModulus - 2, UsizeModulus \div 2}, k \in 0..2 }

\* The buffers that are not written from the wire frames.
OtherBuffers ==
  ArbitraryBuffers \cup DamagedBuffers \cup OddLengthBuffers \cup EscapedBuffers
    \cup HeaderBuffers \cup LargeLengthBuffers

\* The buffers given to parse: arbitrary bytes, damaged frames, frames with
\* odd content-length headers, and the prefixes of the streams of wire
\* frames.
DecodeInputs ==
  { Input(NoFrames, b) : b \in OtherBuffers } \cup PrefixInputs

\* Streams that hold a malformed frame: a terminator that is not NUL, one
\* that is not NUL LF after a good frame, a command that is not UTF-8, a
\* body that is not gzip.
BadStreams ==
  { <<65, LF, LF, 65, LF>>,
    <<65, LF, LF, NUL, LF, 66, LF, LF, NUL, 65>>,
    <<255, LF, LF, NUL, LF>>,
    <<77, LF>> \o ContentLengthName \o <<COLON, 50, LF, LF, 104, 105, NUL, LF>> }

\* The streams the peer sends: the streams of wire frames and the bad ones.
StreamInputs ==
  { Input(fs, WireAll(fs)) : fs \in PeerStreams } \cup { Input(NoFrames, b) : b \in BadStreams }

\* The streams that are no longer than two of the shortest frame.
ShortStreamInputs ==
  { in \in StreamInputs : Len(in.bytes) <= 2 * Len(Wire(WireFrame(<<65>>, <<>>, <<>>))) }

\* The smaller of two numbers.
Min(a, b) == IF a <= b THEN a ELSE b

\* ----------------------------------------------------------------- actions

\* The two handles of the channel's sending side: open moves both into the
\* receive thread, frame_sender into the closure and frame_sender_clone
\* into receive_bytes.
AllSenders == {"frame_sender", "frame_sender_clone"}

\* No call of wait or close has returned yet.
NotReturned == [call |-> "", value |-> ""]

\* The call (wait or close) returned value.
Returned(call, value) == [call |-> call, value |-> value]

\* wait's error when the join reports that the thread panicked.
JoinError == "Unable to join receive thread"

\* close's error when the shutdown of the socket fails.
ShutdownError == "shutdown"

\* The receive thread is over: its closure returned or it unwound.
Exited == thread \in {"done", "panicked"}

\* open: the connection right after the receive thread is spawned; the
\* thread is about to read, and the peer sends one of the streams inputs.
Open(inputs) ==
  /\ \E in \in inputs : stream = in.bytes /\ gen = in.gen
  /\ overflow_checks \in BOOLEAN
  /\ args = NoArgs
  /\ delivered = 0
  /\ pending_data = <<>>
  /\ result = NotCalled
  /\ thread = "read"
  /\ reason = ""
  /\ channel = <<>>
  /\ received = <<>>
  /\ end_of_stream = FALSE
  /\ senders = AllSenders
  /\ disconnected = FALSE
  /\ tcp_stream = "open"
  /\ receive_thread = "Some"
  /\ caller = "idle"
  /\ returned = NotReturned

\* The connection after open, on every stream of the peer.
Init == Open(StreamInputs)

\* tcp_stream.read returns n > 0 bytes, which are appended to pending_data.
ReadData(n) ==
  /\ thread = "read"
  /\ n >= 1
  /\ n <= Min(Len(stream) - delivered, ReceiveBufferSize)
  /\ pending_data' = pending_data \o SubSeq(stream, delivered + 1, delivered + n)
  /\ delivered' = delivered + n
  /\ thread' = "parse"
  /\ UNCHANGED <<stream, gen, args, result, reason, channel, received,
                 end_of_stream, senders, overflow_checks, callerVars>>

\* A loop that takes the end of the stream for a failure of the read.
ReadZeroIsError ==
  /\ thread = "read"
  /\ end_of_stream' = TRUE
  /\ reason' = "eof"
  /\ thread' = "failed"
  /\ senders' = {"frame_sender"}
  /\ UNCHANGED <<stream, gen, args, delivered, pending_data, result, channel, received,
                 overflow_checks, callerVars>>

\* tcp_stream.read returns 0 (the peer closed, or the socket was shut
\* down): receive_bytes returns Ok(()) and the closure ends; both senders
\* are dropped.
ReadZero ==
  /\ thread = "read"
  /\ end_of_stream' = TRUE
  /\ thread' = "done"
  /\ senders' = {}
  /\ UNCHANGED <<stream, gen, args, delivered, pending_data, result, reason, channel,
                 received, overflow_checks, callerVars>>

\* tcp_stream.read fails: receive_bytes returns the error and drops its
\* sender.
ReadError ==
  /\ thread = "read"
  /\ reason' = "read"
  /\ thread' = "failed"
  /\ senders' = {"frame_sender"}
  /\ UNCHANGED <<stream, gen, args, delivered, pending_data, result, channel, received,
                 end_of_stream, overflow_checks, callerVars>>

\* frame::parse returns Ok(None): the while let loop ends, back to the read.
ParseNeedMore ==
  /\ thread = "parse"
  /\ parse(pending_data).kind = "NeedMoreData"
  /\ result' = parse(pending_data)
  /\ thread' = "read"
  /\ UNCHANGED <<stream, gen, args, delivered, pending_data, reason, channel, received,
                 end_of_stream, senders, overflow_checks, callerVars>>

\* frame::parse returns a frame: its bytes are drained and Ok(frame) is
\* sent (the Connection holds the receiver, so the send succeeds), and the
\* while let loop goes on.
ParseFrame ==
  /\ thread = "parse"
  /\ parse(pending_data).kind = "Parsed"
  /\ result' = parse(pending_data)
  /\ pending_data' = Drain(pending_data, parse(pending_data).end)
  /\ channel' = Append(channel, OkMessage(parse(pending_data).frame))
  /\ thread' = "parse"
  /\ UNCHANGED <<stream, gen, args, delivered, reason, received,
                 end_of_stream, senders, overflow_checks, callerVars>>

\* A loop that forwards the decoder's error and goes on reading.
ParseMalformedRecovers ==
  /\ thread = "parse"
  /\ parse(pending_data).kind = "MalformedFrame"
  /\ result' = parse(pending_data)
  /\ reason' = parse(pending_data).why
  /\ channel' = Append(channel, ErrMessage(parse(pending_data).why))
  /\ thread' = "read"
  /\ UNCHANGED <<stream, gen, args, delivered, pending_data, received,
                 end_of_stream, senders, overflow_checks, callerVars>>

\* frame::parse returns Err: receive_bytes returns the error and drops its
\* sender.
ParseMalformed ==
  /\ thread = "parse"
  /\ parse(pending_data).kind = "MalformedFrame"
  /\ result' = parse(pending_data)
  /\ reason' = parse(pending_data).why
  /\ thread' = "failed"
  /\ senders' = {"frame_sender"}
  /\ UNCHANGED <<stream, gen, args, delivered, pending_data, channel, received,
                 end_of_stream, overflow_checks, callerVars>>

\* frame::parse panics: the thread unwinds, nothing is sent, both senders
\* are dropped by the unwinding.
ParsePanic ==
  /\ thread = "parse"
  /\ parse(pending_data).kind = "Panic"
  /\ result' = parse(pending_data)
  /\ thread' = "panicked"
  /\ senders' = {}
  /\ UNCHANGED <<stream, gen, args, delivered, pending_data, reason, channel, received,
                 end_of_stream, overflow_checks, callerVars>>

\* A closure whose sender outlives it (as if the Connection held it).
SendErrKeepsSender ==
  /\ thread = "failed"
  /\ channel' = Append(channel, ErrMessage(reason))
  /\ thread' = "done"
  /\ UNCHANGED <<stream, gen, args, delivered, pending_data, result, reason, received,
                 end_of_stream, senders, overflow_checks, callerVars>>

\* The closure of open: receive_bytes returned an error, which is sent as
\* Err(reason); the closure returns and drops frame_sender.
SendErr ==
  /\ thread = "failed"
  /\ channel' = Append(channel, ErrMessage(reason))
  /\ thread' = "done"
  /\ senders' = {}
  /\ UNCHANGED <<stream, gen, args, delivered, pending_data, result, reason, received,
                 end_of_stream, overflow_checks, callerVars>>

\* A receiver that hands out the newest message first.
RecvNewest ==
  /\ caller = "idle"
  /\ channel # <<>>
  /\ received' = Append(received, channel[Len(channel)])
  /\ channel' = SubSeq(channel, 1, Len(channel) - 1)
  /\ UNCHANGED <<stream, gen, args, delivered, pending_data, result, thread, reason,
                 end_of_stream, senders, overflow_checks, callerVars>>

\* The caller takes the next message from frame_receiver.
Recv ==
  /\ caller = "idle"
  /\ channel # <<>>
  /\ received' = Append(received, Head(channel))
  /\ channel' = Tail(channel)
  /\ UNCHANGED <<stream, gen, args, delivered, pending_data, result, thread, reason,
                 end_of_stream, senders, overflow_checks, callerVars>>

\* The caller calls frame_receiver.recv() on the empty channel after every
\* sender was dropped: recv returns Err(RecvError).  (While a sender lives
\* the call blocks: no step.)
RecvDisconnected ==
  /\ caller = "idle"
  /\ channel = <<>>
  /\ senders = {}
  /\ disconnected' = TRUE
  /\ UNCHANGED <<stream, gen, args, delivered, pending_data, result, thread, reason,
                 channel, received, end_of_stream, senders, overflow_checks,
                 tcp_stream, receive_thread, caller, returned>>

\* A wait that leaves the handle in receive_thread.
WaitKeepsHandle ==
  /\ caller = "idle"
  /\ IF receive_thread = "None"
       THEN returned' = Returned("wait", "Ok") /\ caller' = caller
       ELSE caller' = "wait" /\ returned' = returned
  /\ UNCHANGED <<stream, gen, args, delivered, pending_data, result, thread, reason,
                 channel, received, end_of_stream, senders, overflow_checks,
                 disconnected, tcp_stream, receive_thread>>

\* The caller calls wait: Ok(()) at once when receive_thread is None;
\* else the handle is taken and the caller joins the thread.
Wait ==
  /\ caller = "idle"
  /\ IF receive_thread = "None"
       THEN returned' = Returned("wait", "Ok") /\ caller' = caller
       ELSE caller' = "wait" /\ returned' = returned
  /\ receive_thread' = "None"
  /\ UNCHANGED <<stream, gen, args, delivered, pending_data, result, thread, reason,
                 channel, received, end_of_stream, senders, overflow_checks,
                 disconnected, tcp_stream>>

\* JoinHandle::join returns, once the thread is over: Err when it
\* panicked, which wait turns into its error; the call of wait or close
\* that joined returns.
Join ==
  /\ caller \in {"wait", "close"}
  /\ Exited
  /\ returned' = Returned(caller, IF thread = "panicked" THEN JoinError ELSE "Ok")
  /\ caller' = "idle"
  /\ UNCHANGED <<stream, gen, args, delivered, pending_data, result, thread, reason,
                 channel, received, end_of_stream, senders, overflow_checks,
                 disconnected, tcp_stream, receive_thread>>

\* A close that waits for the thread without shutting the socket down.
CloseWithoutShutdown(shutdown_ok) ==
  /\ caller = "idle"
  /\ IF receive_thread = "None"
       THEN returned' = Returned("close", "Ok") /\ caller' = caller
       ELSE caller' = "close" /\ returned' = returned
  /\ receive_thread' = "None"
  /\ UNCHANGED <<stream, gen, args, delivered, pending_data, result, thread, reason,
                 channel, received, end_of_stream, senders, overflow_checks,
                 disconnected, tcp_stream>>

\* The caller calls close: the shutdown of the socket fails and close
\* returns the error, or it succeeds and close goes on as wait.
Close(shutdown_ok) ==
  /\ caller = "idle"
  /\ IF ~shutdown_ok
       THEN /\ returned' = Returned("close", ShutdownError)
            /\ UNCHANGED <<tcp_stream, receive_thread, caller>>
       ELSE /\ tcp_stream' = "shutdown"
            /\ IF receive_thread = "None"
                 THEN returned' = Returned("close", "Ok") /\ caller' = caller
                 ELSE caller' = "close" /\ returned' = returned
            /\ receive_thread' = "None"
  /\ UNCHANGED <<stream, gen, args, delivered, pending_data, result, thread, reason,
                 channel, received, end_of_stream, senders, overflow_checks,
                 disconnected>>

Next ==
  \/ \E n \in 1..Len(stream) - delivered : ReadData(n)
  \/ ReadZero
  \/ ReadError
  \/ ParseNeedMore
  \/ ParseFrame
  \/ ParseMalformed
  \/ ParsePanic
  \/ SendErr
  \/ Recv
  \/ RecvDisconnected
  \/ Wait
  \/ Join
  \/ \E shutdown_ok \in BOOLEAN : Close(shutdown_ok)

\* The connection: the receive thread fed by the peer's stream in reads of
\* any size, and the caller receiving, waiting and closing.
Spec == Init /\ [][Next]_vars

\* A step of the receive thread that waits for nothing: the decoding of
\* what was read and the sending of the error.
ThreadStep ==
  \/ ParseNeedMore
  \/ ParseFrame
  \/ ParseMalformed
  \/ ParsePanic
  \/ SendErr

\* tcp_stream.read returns after the socket was shut down.
ReadAfterShutdown ==
  /\ tcp_stream = "shutdown"
  /\ \/ \E n \in 1..Len(stream) - delivered : ReadData(n)
     \/ ReadZero
     \/ ReadError

\* The connection with what the scheduler and the socket grant: the thread
\* runs when it waits for nothing, a read on a socket that was shut down
\* returns, and a join of a thread that is over returns.  (While the socket
\* is open a read may block for ever, and the caller need not call.)
FairSpec ==
  /\ Open(ShortStreamInputs)
  /\ [][Next]_vars
  /\ WF_vars(ThreadStep)
  /\ WF_vars(ReadAfterShutdown)
  /\ WF_vars(Join)

\* frame::parse and frame::create as functions: the buffer under test is in
\* pending_data, as after one read, or is about to be made by create.
InitDecode ==
  /\ \/ /\ \E in \in DecodeInputs : stream = in.bytes /\ gen = in.gen
        /\ args = NoArgs
        /\ thread = "parse"
     \/ /\ stream = <<>> /\ gen = NoFrames
        /\ args \in CreateCalls
        /\ thread = "create"
  /\ overflow_checks \in BOOLEAN
  /\ delivered = Len(stream)
  /\ pending_data = stream
  /\ result = NotCalled
  /\ reason = ""
  /\ channel = <<>>
  /\ received = <<>>
  /\ end_of_stream = FALSE
  /\ senders = AllSenders
  /\ disconnected = FALSE
  /\ tcp_stream = "open"
  /\ receive_thread = "Some"
  /\ caller = "idle"
  /\ returned = NotReturned

\* frame::create is called and its bytes are given to parse.
Create ==
  /\ thread = "create"
  /\ pending_data' = create(args.command, args.has_headers, args.headers, args.body)
  /\ stream' = pending_data'
  /\ delivered' = Len(pending_data')
  /\ thread' = "parse"
  /\ UNCHANGED <<gen, args, result, reason, channel, received,
                 end_of_stream, senders, overflow_checks, callerVars>>

NextDecode ==
  \/ Create
  \/ ParseNeedMore
  \/ ParseFrame
  \/ ParseMalformed
  \/ ParsePanic

\* The decoder and the encoder alone, on every input.
SpecDecode == InitDecode /\ [][NextDecode]_vars

\* ------------------------------------------------------ words of the claims

\* The frames of the Ok messages among msgs, in order.
RECURSIVE OkFrames(_)
OkFrames(msgs) ==
  IF msgs = <<>> THEN <<>>
  ELSE (IF Head(msgs).ok THEN <<Head(msgs).frame>> ELSE <<>>) \o OkFrames(Tail(msgs))

\* How many Err messages are among msgs.
RECURSIVE ErrCount(_)
ErrCount(msgs) ==
  IF msgs = <<>> THEN 0 ELSE (IF Head(msgs).ok THEN 0 ELSE 1) + ErrCount(Tail(msgs))

\* In SpecDecode: result is the outcome of the first call of parse, the one
\* on the buffer under test (a later call is on what the first one left).
FirstCall ==
  /\ result.kind # "NotCalled"
  /\ Len(sent) = (IF result.kind = "Parsed" THEN 1 ELSE 0)

\* The buffer under test was written from exactly one wire frame.
OneFrame == Len(gen) = 1

\* A wire frame with no content-length header.
IsUnsized(f) == \A i \in 1..Len(f.headers) : f.headers[i][1] # ContentLengthName

\* A wire frame whose body is announced by a content-length header.
IsSized(f) ==
  /\ f.body # <<>>
  /\ \E i \in 1..Len(f.headers) : f.headers[i] = ContentLengthHeader(<<48 + Len(f.body)>>)

\* The buffer has a header/body separator.
HasSeparator(b) == SeparatorPosition(b) # None

\* The buffer's header region, between the command line and the separator.
HeaderRegion(b) == Slice(b, Position(b, LF) + 1, SeparatorPosition(b) + 1)

\* The buffer has a separator and a content-length header parse can use.
HasUsableContentLength(b) ==
  /\ HasSeparator(b)
  /\ Utf8Valid(HeaderRegion(b))
  /\ ContentLength(ParseHeaders(HeaderRegion(b))) # None

\* The position right after the separator, where the terminator is due.
TerminatorPosition(b) == SeparatorPosition(b) + 2

\* ------------------------------------------------------------------ claims

\* C1: on every byte buffer frame::parse returns NeedMoreData, a frame or
\* MalformedFrame, and never panics by indexing or slicing outside the
\* buffer.  (The code indexes buffer[headers_end_position + 2] after
\* checking only that headers_end_position + 2 bytes are there.)
C1_ParseNeverPanics ==
  /\ result.kind \in {"NotCalled", "NeedMoreData", "Parsed", "MalformedFrame"}
  /\ thread # "panicked"

\* C2: parse on a proper prefix of a valid wire frame returns NeedMoreData,
\* never MalformedFrame; without content-length, MalformedFrame for the
\* terminator is returned only when both terminator bytes are there, and
\* when fewer than two bytes follow the separator the result is
\* NeedMoreData.
C2_TruncationNeedsMoreData ==
  /\ (OneFrame /\ FirstCall /\ Len(stream) < Len(Wire(gen[1])))
       => result.kind = "NeedMoreData"
  /\ (/\ FirstCall
      /\ result.kind = "MalformedFrame"
      /\ result.why \in {"Frame not null terminated", "Frame not terminated with a new line"}
      /\ ~HasUsableContentLength(stream))
       => Len(stream) - TerminatorPosition(stream) >= 2
  /\ (/\ FirstCall
      /\ HasSeparator(stream)
      /\ Utf8Valid(Slice(stream, 0, Position(stream, LF)))
      /\ Utf8Valid(HeaderRegion(stream))
      /\ ~HasUsableContentLength(stream)
      /\ Len(stream) - TerminatorPosition(stream) < 2)
       => result.kind = "NeedMoreData"

\* The frames forwarded when the whole buffer is there at once: parse and
\* drain until parse returns no frame.
RECURSIVE OneRead(_)
OneRead(buffer) ==
  LET first == parse(buffer)
  IN IF first.kind = "Parsed"
       THEN <<first.frame>> \o OneRead(Drain(buffer, first.end))
       ELSE <<>>

\* s is a prefix of t.
IsPrefix(s, t) == Len(s) <= Len(t) /\ s = SubSeq(t, 1, Len(s))

\* C3: for a stream of valid wire frames, however it is split into reads,
\* the receive thread does not panic, forwards no decoding error, and
\* forwards the frames that one read of the whole stream forwards: a prefix
\* of them at any time, all of them once every byte is read and parsed.
C3_ChunkingIndependent ==
  gen # NoFrames =>
    /\ thread # "panicked"
    /\ \A i \in 1..Len(sent) : sent[i].ok \/ sent[i].reason = "read"
    /\ (thread = "failed" => reason = "read")
    /\ IsPrefix(OkFrames(sent), OneRead(stream))
    /\ (delivered = Len(stream) /\ thread = "read" => OkFrames(sent) = OneRead(stream))

\* C4: for a valid wire frame without content-length, parse on a prefix
\* that ends before the terminating NUL returns NeedMoreData, and parse on
\* the whole frame returns it with end position + 1 equal to the length of
\* the input.
C4_UnsizedFrameDecodes ==
  (OneFrame /\ FirstCall /\ IsUnsized(gen[1])) =>
    /\ (Len(stream) <= Len(Wire(gen[1])) - 2 => result.kind = "NeedMoreData")
    /\ (stream = Wire(gen[1]) =>
          /\ result.kind = "Parsed"
          /\ result.end + 1 = Len(stream)
          /\ pending_data = <<>>)

\* C4's case: a whole frame without content-length was parsed.
C4_Witness ==
  /\ OneFrame /\ FirstCall /\ IsUnsized(gen[1])
  /\ gen[1].headers # <<>>
  /\ stream = Wire(gen[1])
  /\ result.kind = "Parsed"

\* C5: for a stream of valid wire frames, after k frames were extracted the
\* bytes removed from the buffer are exactly the bytes of the first k wire
\* frames, NUL and LF included, so what is left starts at frame k + 1 (or
\* is empty); and the frames extracted are the first k frames, in order.
C5_BufferInvariant ==
  gen # NoFrames =>
    LET k == Len(OkFrames(sent)) IN
      /\ k <= Len(gen)
      /\ OkFrames(sent) = SubSeq(DecodedAll(gen), 1, k)
      /\ pending_data = SubSeq(stream, Len(WireAll(SubSeq(gen, 1, k))) + 1, delivered)

\* C5's case: two frames were in one buffer, the first was extracted and
\* the buffer now holds the second, whole, which is about to be parsed.
C5_Witness ==
  /\ Len(gen) = 2
  /\ IsSized(gen[1]) /\ IsUnsized(gen[2])
  /\ delivered = Len(stream)
  /\ thread = "parse"
  /\ Len(OkFrames(sent)) = 1
  /\ pending_data = Wire(gen[2])

\* C6: for a frame with content-length N, parse on the buffer that holds
\* the command, the headers, the separator and N - 1 body bytes returns
\* NeedMoreData; on the whole frame (N body bytes, NUL, LF) it returns the
\* frame with the body decompressed from those N bytes and the end position
\* at the final LF.
C6_SizedFrameDecodes ==
  (OneFrame /\ FirstCall /\ IsSized(gen[1])) =>
    /\ (Len(stream) = Len(Wire(gen[1])) - 3 => result.kind = "NeedMoreData")
    /\ (stream = Wire(gen[1]) =>
          /\ result.kind = "Parsed"
          /\ result.frame.body = Decoded(gen[1]).body
          /\ result.frame.body.some
          /\ result.end = Len(stream) - 1
          /\ At(stream, result.end) = LF
          /\ pending_data = <<>>)

\* C6's case: a whole frame with content-length 3 was parsed.
C6_Witness ==
  /\ OneFrame /\ FirstCall /\ IsSized(gen[1])
  /\ Len(gen[1].body) = 3
  /\ stream = Wire(gen[1])
  /\ result.kind = "Parsed"
  /\ result.frame.body.text = <<104>>

\* The shortest valid frame: a command line, LF LF, NUL, LF.
MinimalFrame == Wire(WireFrame(<<65>>, <<>>, <<>>))

\* C7: on every buffer shorter than the shortest valid frame, whatever its
\* bytes, parse returns NeedMoreData.
C7_ShortBufferNeedsMoreData ==
  (FirstCall /\ Len(stream) < Len(MinimalFrame)) => result.kind = "NeedMoreData"

\* C8: when the buffer has a separator and no usable content-length header,
\* and the byte right after the separator is there and is not NUL, parse
\* returns MalformedFrame (and does not panic).
C8_BadTerminatorIsMalformed ==
  (/\ FirstCall
   /\ HasSeparator(stream)
   /\ ~HasUsableContentLength(stream)
   /\ InBounds(stream, TerminatorPosition(stream))
   /\ At(stream, TerminatorPosition(stream)) # NUL)
    => result.kind = "MalformedFrame"

\* C8's case: a command line, a header, the separator, then a byte that is
\* not NUL; parse reported the missing NUL.
C8_Witness ==
  /\ FirstCall
  /\ HasSeparator(stream)
  /\ ParseHeaders(HeaderRegion(stream)) # <<>>
  /\ ~HasUsableContentLength(stream)
  /\ InBounds(stream, TerminatorPosition(stream))
  /\ At(stream, TerminatorPosition(stream)) # NUL
  /\ result = MalformedFrame("Frame not null terminated")

\* C9: parse on the bytes of create(command, headers, body), headers given
\* and without content-length, returns the frame with that command, those
\* headers in order and no body.
C9_CreateThenParse ==
  (args.called /\ args.has_headers /\ FirstCall) =>
    /\ result.kind = "Parsed"
    /\ result.frame = Frame(args.command, args.headers, NoBody)

\* C10: a read error or a MalformedFrame puts exactly one Err on the
\* channel, nothing is sent after it and the thread has then ended (until
\* then the thread is free to send it); no connection ever carries two Err
\* messages.
C10_OneErrThenEnd ==
  /\ ErrCount(sent) <= 1
  /\ (ErrCount(sent) = 1 =>
        /\ ~sent[Len(sent)].ok
        /\ sent[Len(sent)].reason = reason
        /\ thread = "done")
  /\ (reason # "" <=> thread = "failed" \/ ErrCount(sent) = 1)
  /\ (thread = "failed" => ErrCount(sent) = 0 /\ ENABLED SendErr)
  /\ (result.kind = "MalformedFrame" => reason = result.why)

\* C10's case: a frame was forwarded, then the decoder found the next frame
\* malformed; the Err followed the Ok and the thread ended.
C10_Witness ==
  /\ thread = "done"
  /\ result.kind = "MalformedFrame"
  /\ Len(sent) = 2
  /\ sent[1].ok
  /\ sent[2] = ErrMessage("Frame not terminated with a new line")

\* C11: when a read returns zero bytes the receive loop ends cleanly,
\* whatever pending_data holds (nothing, or an incomplete frame, which is
\* dropped): the thread is over without a panic, receive_bytes returned no
\* error and no Err was or will be sent; only the frames parsed before are
\* on the channel.
C11_ZeroReadEndsCleanly ==
  end_of_stream =>
    /\ thread = "done"
    /\ reason = ""
    /\ ErrCount(sent) = 0
    /\ ~ENABLED SendErr
    /\ result.kind \in {"NotCalled", "NeedMoreData"}

\* C11's case: one frame was forwarded and received, part of the next one
\* was in pending_data when the read returned zero, and the thread ended.
C11_Witness ==
  /\ end_of_stream
  /\ thread = "done"
  /\ pending_data # <<>>
  /\ Len(received) = 1
  /\ channel = <<>>

\* The frames completely parsed so far, in the order parsed: the frames in
\* the bytes of the stream that were drained from pending_data.
FramesParsed == OneRead(SubSeq(stream, 1, delivered - Len(pending_data)))

\* C12: in every interleaving of the caller and the receive thread, the
\* Ok frames the caller has received followed by those still on the
\* channel are the frames parsed so far, each once and in the order
\* parsed; and when the caller has received an Err it came last, after
\* every frame parsed before the failure.
C12_FifoOrder ==
  LET parsed == FramesParsed IN
    /\ IsPrefix(OkFrames(received), parsed)
    /\ OkFrames(received) \o OkFrames(channel) = parsed
    /\ \A i \in 1..Len(received) :
          ~received[i].ok =>
            /\ i = Len(received)
            /\ channel = <<>>
            /\ OkFrames(received) = parsed

\* C12's case: the caller has received two different frames, or a frame
\* and then the Err of the failure that followed it.
C12_Witness ==
  /\ Len(received) = 2
  /\ received[1].ok
  /\ received[2].ok => received[1].frame # received[2].frame
  /\ ~received[2].ok => received[2].reason = "Frame not terminated with a new line"
  /\ delivered = Len(stream)

\* C13: both senders belong to the receive thread, so the channel has no
\* sender left exactly when the thread is over (its closure returned after
\* a clean end or a failure, or it panicked); from then on a receive call
\* of the caller does not block: it yields the next queued message, or,
\* the queue being empty, reports the disconnection, which is never
\* reported while a message is queued or the thread is alive.
C13_DisconnectedIffExited ==
  /\ senders \subseteq AllSenders
  /\ senders = {} <=> Exited
  /\ (Exited /\ caller = "idle") =>
        IF channel # <<>> THEN ENABLED Recv ELSE ENABLED RecvDisconnected
  /\ ~Exited => ~ENABLED RecvDisconnected
  /\ disconnected => Exited /\ channel = <<>>

\* C13's case: a frame was queued, the thread panicked on the next one, and
\* the caller received the frame and then the disconnection.
C13_Witness ==
  /\ thread = "panicked"
  /\ Len(received) = 1
  /\ received[1].ok
  /\ disconnected

\* A call of wait or close has returned from joining the thread, or after
\* finding it joined.
ReturnedFromWait == returned.value \in {"Ok", JoinError}

\* C14: a wait that joins returns only when the thread is over; and once
\* a wait or a close has joined the thread (the handle is gone and the
\* caller is back), the handle stays gone, no later call blocks, and a
\* later wait returns Ok at once and changes nothing else.
C14_WaitIdempotent ==
  /\ [](ReturnedFromWait => Exited /\ receive_thread = "None" /\ caller = "idle")
  /\ [][(caller = "wait" /\ caller' = "idle") =>
          Exited /\ returned'.call = "wait"]_vars
  /\ [][(receive_thread = "None" /\ caller = "idle") =>
          /\ receive_thread' = "None"
          /\ caller' = "idle"
          /\ (returned' # returned /\ returned'.call = "wait") =>
                /\ returned'.value = "Ok"
                /\ UNCHANGED <<stream, gen, args, delivered, pending_data, result, thread,
                               reason, channel, received, end_of_stream, senders,
                               overflow_checks, disconnected, tcp_stream>>]_vars

\* C14's case: a close shut the socket down and joined the thread, and a
\* later wait has returned Ok.
C14_Witness ==
  /\ tcp_stream = "shutdown"
  /\ receive_thread = "None"
  /\ caller = "idle"
  /\ returned = Returned("wait", "Ok")

\* The state of the connection: Open until close shuts the socket down,
\* Closed once the thread is over and the caller is back, Closing between.
ConnectionState ==
  IF tcp_stream = "open" THEN "Open"
  ELSE IF Exited /\ receive_thread = "None" /\ caller = "idle" THEN "Closed"
  ELSE "Closing"

\* Open, Closing, Closed in this order.
Rank(state) == CASE state = "Open" -> 0 [] state = "Closing" -> 1 [] state = "Closed" -> 2

\* C15: once close has shut the socket down the receive thread ends, and
\* a close that waits in the join returns with the thread joined; the
\* connection goes from Open to Closing to Closed and never back.
C15_CloseTerminates ==
  /\ (tcp_stream = "shutdown") ~> Exited
  /\ (caller = "close") ~>
        (/\ caller = "idle"
         /\ returned.call = "close"
         /\ ReturnedFromWait
         /\ Exited
         /\ receive_thread = "None")
  /\ (tcp_stream = "shutdown") ~> (ConnectionState = "Closed")
  /\ [][Rank(ConnectionState') >= Rank(ConnectionState)]_vars

\* C15's case: close shut the socket down while bytes of the stream were
\* still to come, the thread's read returned zero, and close returned Ok
\* with the thread joined.
C15_Witness ==
  /\ ConnectionState = "Closed"
  /\ returned = Returned("close", "Ok")
  /\ thread = "done"
  /\ end_of_stream
  /\ delivered < Len(stream)

\* The headers hold a content-length whose value parses as a usize.
HasNumericLength(headers) ==
  \E i \in 1..Len(headers) :
    headers[i][1] = ContentLengthName /\ ParseUsize(headers[i][2]) # None

\* C16: a frame parse returns has a body exactly when its headers hold a
\* content-length whose value parses as an unsigned integer; and a buffer
\* whose headers hold none (no content-length, or only values that do not
\* parse) and that goes on with NUL LF right after the separator is
\* decoded without an error, as the frame with no body that ends at
\* that LF.
C16_BodyIffContentLength ==
  /\ result.kind = "Parsed" =>
        (result.frame.body.some <=> HasNumericLength(result.frame.headers))
  /\ (/\ FirstCall
      /\ HasSeparator(stream)
      /\ Utf8Valid(Slice(stream, 0, Position(stream, LF)))
      /\ Utf8Valid(HeaderRegion(stream))
      /\ ~HasNumericLength(ParseHeaders(HeaderRegion(stream)))
      /\ InBounds(stream, TerminatorPosition(stream) + 1)
      /\ At(stream, TerminatorPosition(stream)) = NUL
      /\ At(stream, TerminatorPosition(stream) + 1) = LF)
       => /\ result.kind = "Parsed"
          /\ result.frame.body = NoBody
          /\ result.end = TerminatorPosition(stream) + 1

\* C16's case: a frame whose only content-length is "x" was decoded, with
\* no body.
C16_Witness ==
  /\ FirstCall
  /\ result.kind = "Parsed"
  /\ result.frame.headers = << ContentLengthHeader(<<120>>) >>
  /\ result.frame.body = NoBody
  /\ pending_data = <<>>

\* C17: for every header value v of backslashes, colons, CRs, LFs and
\* letters, parse on a frame whose header value is the escaping of v
\* returns the frame with the header value v.  (The code undoes the four
\* escapes one after the other over the whole value, so the second
\* backslash of an escaped backslash and a letter n after it are taken
\* for an escaped LF.)
C17_UnescapeInvertsEscape ==
  \A v \in EscapeValues :
    (FirstCall /\ stream = EscapedFrame(v)) =>
      /\ result.kind = "Parsed"
      /\ result.frame.headers = << <<(<<107>>), v>> >>

\* The positions (from 1) of the LFs of s.
LfPositions(s) == {i \in 1..Len(s) : s[i] = LF}

\* The lines of a header region, which ends with the LF of its last line,
\* in wire order: line k ends before the k-th LF and begins after the LF
\* before it.
WireLines(s) ==
  [k \in 1..Cardinality(LfPositions(s)) |->
     LET end == CHOOSE e \in LfPositions(s) :
                  Cardinality({i \in LfPositions(s) : i <= e}) = k
         before == {i \in LfPositions(s) : i < end}
         start == IF before = {} THEN 1
                  ELSE 1 + CHOOSE b \in before : \A i \in before : i <= b
     IN SubSeq(s, start, end - 1)]

\* The line has a colon, and a name before its first colon.
HasName(line) ==
  \E i \in 2..Len(line) : line[i] = COLON /\ \A j \in 1..i - 1 : line[j] # COLON

\* The place (from 1) of the first colon of a line that has one.
FirstColon(line) ==
  CHOOSE i \in 1..Len(line) : line[i] = COLON /\ \A j \in 1..i - 1 : line[j] # COLON

\* The name of a header line, in lower case.
NameOf(line) == [k \in 1..FirstColon(line) - 1 |-> LowerByte(line[k])]

\* Everything after the first colon of a header line.
AfterColon(line) == SubSeq(line, FirstColon(line) + 1, Len(line))

\* One pair per line of the region that has a name, in wire order: the
\* name in lower case and everything after the first colon.
PairsAsOnWire(region) ==
  LET kept == SelectSeq(WireLines(region), HasName)
  IN [k \in 1..Len(kept) |-> <<NameOf(kept[k]), AfterColon(kept[k])>>]

\* The same pairs with the escapes of the value undone as the code does.
PairsUnescaped(region) ==
  LET kept == SelectSeq(WireLines(region), HasName)
  IN [k \in 1..Len(kept) |-> <<NameOf(kept[k]), Unescape(AfterColon(kept[k]))>>]

\* The region has no CR (a CR before an LF belongs to the line's end).
NoCR(region) == \A i \in 1..Len(region) : region[i] # CR

C19_LargeLengthNeedsMoreData ==
  (/\ FirstCall
   /\ HasSeparator(stream)
   /\ Utf8Valid(Slice(stream, 0, Position(stream, LF)))
   /\ HasUsableContentLength(stream)
   /\ Len(stream) - TerminatorPosition(stream)
        < ContentLength(ParseHeaders(HeaderRegion(stream))))
    => result.kind = "NeedMoreData"

\* C20: close has returned Ok only when the socket is shut down and the
\* thread is over, joined, and did not panic; a close whose shutdown
\* fails returns that error at once and leaves receive_thread as it was;
\* and the call that joins a thread that panicked returns the error.
\* (After a wait has joined a thread that panicked, and returned the
\* error, a close finds receive_thread None and returns Ok.)
C20_CloseResult ==
  /\ [](returned = Returned("close", "Ok") =>
          /\ tcp_stream = "shutdown"
          /\ receive_thread = "None"
          /\ thread = "done")
  /\ [][(returned' # returned /\ returned' = Returned("close", ShutdownError)) =>
          UNCHANGED <<receive_thread, caller, tcp_stream, thread>>]_vars
  /\ [][(caller \in {"wait", "close"} /\ caller' = "idle" /\ thread = "panicked") =>
          returned' = Returned(caller, JoinError)]_vars

====
